---- MODULE Spec2Model ----
(***************************************************************************)
(* A model of the replica/location core of t2kdm: the storage element      *)
(* registry and its distance metric (storage.py), the output shaping and   *)
(* the replicate/get orchestration of the grid backend (backends.py), and  *)
(* the TTL cache of function results (cache.py).                           *)
(*                                                                         *)
(* Strings are finite sequences.  Location strings and text blobs are      *)
(* sequences of characters, because commonprefix and split work character  *)
(* by character.  Host names, base paths and storage paths are sequences   *)
(* of atoms in which every "/" is an atom of its own, so that startswith,  *)
(* endswith, concatenation and the substring test act as on the strings.   *)
(***************************************************************************)
EXTENDS Integers, Sequences, FiniteSets, TLC

VARIABLES
    conv,       \* output shaping: the text blob, the line iterable, the re-joined blob
    geo,        \* distance metric: three storage elements and the two distances
    loc,        \* locator construction: storage element, logical path, storage path
    replicas,   \* file catalogue: logical file -> names of the SEs holding a replica
    last,       \* the last replicate/get/remove call: arguments, observations, result
    cache,      \* Cache.cache: key -> CacheEntry, for the keys present
    cache_time, \* Cache.cache_time
    now,        \* the clock read by time()
    call,       \* the last call of a cached function: arguments, observations, result
    producer,   \* history: key -> the invocation whose value Cache.cache holds under it
    listing,    \* replicas(long=True): raw locators, query answers, enriched lines
    xfer        \* the output of the last replicate/get call and the tool output behind it

vars == <<conv, geo, loc, replicas, last, cache, cache_time, now, call,
          producer, listing, xfer>>

(***************************************************************************)
(* Strings                                                                 *)
(***************************************************************************)
SLASH == "/"
NL == "\n"

\* s[:n]
Take(s, n) == SubSeq(s, 1, n)

\* s[n:]
Drop(s, n) == SubSeq(s, n + 1, Len(s))

\* str.startswith
StartsWith(s, p) == Len(p) <= Len(s) /\ Take(s, Len(p)) = p

\* str.endswith
EndsWith(s, p) == Len(p) <= Len(s) /\ Drop(s, Len(s) - Len(p)) = p

\* `sub in s` for strings
Contains(s, sub) ==
    \E i \in 0..(Len(s) - Len(sub)) : SubSeq(s, i + 1, i + Len(sub)) = sub

\* str.count of a single character
RECURSIVE Count(_, _)
Count(s, c) ==
    IF s = <<>> THEN 0
    ELSE (IF Head(s) = c THEN 1 ELSE 0) + Count(Tail(s), c)

\* All sequences over alphabet A of length at most n
RECURSIVE SeqsUpTo(_, _)
SeqsUpTo(A, n) ==
    IF n = 0 THEN {<<>>}
    ELSE LET shorter == SeqsUpTo(A, n - 1)
         IN  shorter \cup {Append(s, a) : s \in {t \in shorter : Len(t) = n - 1}, a \in A}

(***************************************************************************)
(* posixpath                                                               *)
(***************************************************************************)
\* posixpath.commonprefix of two strings: the longest common leading substring,
\* compared character by character
RECURSIVE commonprefix(_, _)
commonprefix(a, b) ==
    IF a = <<>> \/ b = <<>> \/ Head(a) # Head(b) THEN <<>>
    ELSE <<Head(a)>> \o commonprefix(Tail(a), Tail(b))

\* posixpath.join(a, b): an absolute b discards a
posixpath_join(a, b) ==
    IF StartsWith(b, <<SLASH>>) THEN b
    ELSE IF a = <<>> \/ EndsWith(a, <<SLASH>>) THEN a \o b
    ELSE a \o <<SLASH>> \o b

(***************************************************************************)
(* storage.py: the storage elements                                        *)
(***************************************************************************)
StorageElement(name, host, type, location, basepath) ==
    [name |-> name, host |-> host, type |-> type,
     location |-> location, basepath |-> basepath]

LocRAL == <<"/","e","u","r","o","p","e","/","u","k","/","r","a","l">>
LocUBC == <<"/","a","m","e","r","i","c","a","s","/","c","a","/","u","b","c">>
LocKEK == <<"/","a","s","i","a","/","j","p","/","k","e","k">>

\* The registry, in registration order
SEs == <<
    StorageElement("RAL-LCG22-tape", <<"srm-t2k.gridpp.rl.ac.uk">>, "tape", LocRAL,
        <<"srm:", "/", "/", "srm-t2k.gridpp.rl.ac.uk", "/", "castor", "/",
          "ads.rl.ac.uk", "/", "prod", "/", "t2k.org">>),
    StorageElement("UKI-SOUTHGRID-RALPP-disk", <<"heplnx204.pp.rl.ac.uk">>, "disk", LocRAL,
        <<"rm:", "/", "/", "heplnx204.pp.rl.ac.uk", "/", "pnfs", "/",
          "pp.rl.ac.uk", "/", "data", "/", "t2k", "/", "t2k.org">>),
    StorageElement("CA-TRIUMF-T2K1-disk", <<"t2ksrm.nd280.org">>, "disk", LocUBC,
        <<"srm:", "/", "/">>),
    StorageElement("JP-KEK-CRC-02-disk", <<"kek2-se01.cc.kek.jp">>, "disk", LocKEK,
        <<"srm:", "/", "/">>)
>>

SEIndex == 1..Len(SEs)
SENames == {SEs[i].name : i \in SEIndex}

\* None where a StorageElement is expected
NoSE == StorageElement("None", <<>>, "None", <<>>, <<>>)

\* StorageElement.get_storage_path
get_storage_path(SE, remotepath) == posixpath_join(SE.basepath, remotepath)

\* StorageElement.get_distance, on the two location strings
get_distance(selfloc, otherloc) ==
    LET common == commonprefix(selfloc, otherloc)
    IN  0 - Count(common, SLASH)

\* storage.get_SE_by_path: the first SE of the registry whose host is in the path
get_SE_by_path(path) ==
    IF \E i \in SEIndex : Contains(path, SEs[i].host)
    THEN SEs[CHOOSE i \in SEIndex :
                /\ Contains(path, SEs[i].host)
                /\ \A j \in 1..(i - 1) : ~Contains(path, SEs[j].host)]
    ELSE NoSE

(***************************************************************************)
(* backends.py: the two output shapes                                      *)
(***************************************************************************)
\* str.split(sep) for a one-character separator
RECURSIVE split(_, _)
split(text, sep) ==
    IF \A i \in 1..Len(text) : text[i] # sep THEN <<text>>
    ELSE LET i == CHOOSE k \in 1..Len(text) :
                      text[k] = sep /\ \A j \in 1..(k - 1) : text[j] # sep
         IN  <<Take(text, i - 1)>> \o split(Drop(text, i), sep)

TextValue(text) == [kind |-> "text", val |-> text]
IterValue(lines) == [kind |-> "iter", val |-> lines]
Raised(error) == [kind |-> error, val |-> <<>>]

\* GridBackend._iterable_output_from_text(text, _iter=it)
\* text[-1] of an empty string raises IndexError
_iterable_output_from_text(text, it) ==
    IF it = FALSE THEN TextValue(text)
    ELSE IF text = <<>> THEN Raised("IndexError")
    ELSE LET lines == split(text, NL)
             kept == IF text[Len(text)] = NL THEN Take(lines, Len(lines) - 1) ELSE lines
         IN  IterValue([i \in 1..Len(kept) |-> kept[i] \o <<NL>>])

RECURSIVE Concat(_)
Concat(lines) ==
    IF lines = <<>> THEN <<>> ELSE Head(lines) \o Concat(Tail(lines))

\* GridBackend._iterable_output_from_iterable(iterable, _iter=it)
_iterable_output_from_iterable(iterable, it) ==
    IF it = TRUE THEN IterValue(iterable)
    ELSE TextValue(Concat(iterable))

(***************************************************************************)
(* Output shaping as a state machine: a text blob is turned into the       *)
(* requested shape and an iterable is turned back.                         *)
(***************************************************************************)
MaxTextLen == 4
TextAlphabet == {"a", "b", NL}
Texts == SeqsUpTo(TextAlphabet, MaxTextLen)

Unset == [kind |-> "unset", val |-> <<>>]
ConvIdle == [pc |-> "idle", text |-> <<>>, it1 |-> FALSE, it2 |-> FALSE,
             out |-> Unset, back |-> Unset]

ConvInit ==
    \E T \in Texts :
        conv = [ConvIdle EXCEPT !.pc = "text", !.text = T]

\* A call of _iterable_output_from_text on the blob
FromText(it) ==
    /\ conv.pc = "text"
    /\ LET r == _iterable_output_from_text(conv.text, it)
       IN  conv' = [conv EXCEPT !.out = r, !.it1 = it,
                                !.pc = IF r.kind = "IndexError" THEN "raised" ELSE "shaped"]

\* A call of _iterable_output_from_iterable on the iterable made from the blob
FromIterable(it) ==
    /\ conv.pc = "shaped"
    /\ conv.out.kind = "iter"
    /\ conv' = [conv EXCEPT !.back = _iterable_output_from_iterable(conv.out.val, it),
                            !.it2 = it, !.pc = "done"]

(***************************************************************************)
(* The distance metric as a state machine: the distances of two storage    *)
(* elements x and y to a reference element are taken.                      *)
(***************************************************************************)
MaxLocLen == 4
LocAlphabet == {SLASH, "a", "b"}
\* Location strings: those of the registry and all short ones starting with "/"
Locations ==
    {SEs[i].location : i \in SEIndex}
        \cup {s \in SeqsUpTo(LocAlphabet, MaxLocLen) : StartsWith(s, <<SLASH>>)}

GeoIdle == [pc |-> "idle", x |-> <<>>, y |-> <<>>, ref |-> <<>>, dx |-> 0, dy |-> 0]

GeoInit ==
    \E x \in Locations, y \in Locations, ref \in Locations :
        geo = [GeoIdle EXCEPT !.pc = "start", !.x = x, !.y = y, !.ref = ref]

\* x.get_distance(ref) and y.get_distance(ref)
Measure ==
    /\ geo.pc = "start"
    /\ geo' = [geo EXCEPT !.dx = get_distance(geo.x, geo.ref),
                          !.dy = get_distance(geo.y, geo.ref),
                          !.pc = "done"]

(***************************************************************************)
(* Locator construction as a state machine: a storage path is built for a  *)
(* registered SE and a logical path, and looked up again.                  *)
(***************************************************************************)
MaxDepth == 3
PathNames == {"nd280", "test", "f.txt"}

\* Canonical logical paths: "/" name "/" name ..., at most n names
RECURSIVE LogicalPaths(_)
LogicalPaths(n) ==
    IF n = 0 THEN {}
    ELSE LET shorter == LogicalPaths(n - 1)
         IN  {<<SLASH, c>> : c \in PathNames}
                \cup {p \o <<SLASH, c>> : p \in shorter, c \in PathNames}

LocIdle == [pc |-> "idle", se |-> 1, path |-> <<>>, storagepath |-> <<>>, found |-> NoSE]

LocInit ==
    \E i \in SEIndex, p \in LogicalPaths(MaxDepth) :
        loc = [LocIdle EXCEPT !.pc = "start", !.se = i, !.path = p]

\* SE.get_storage_path(p), then get_SE_by_path on the result
Locate ==
    /\ loc.pc = "start"
    /\ LET sp == get_storage_path(SEs[loc.se], loc.path)
       IN  loc' = [loc EXCEPT !.storagepath = sp, !.found = get_SE_by_path(sp),
                              !.pc = "done"]

(***************************************************************************)
(* The grid: a logical directory tree and, per file, the SEs that hold a   *)
(* replica.  The tree is fixed; the replicas change with the transfers.    *)
(***************************************************************************)
DirD == <<SLASH, "d">>
DirSub == <<SLASH, "d", SLASH, "sub">>
FileA == <<SLASH, "d", SLASH, "a.txt">>
FileB == <<SLASH, "d", SLASH, "b.log">>
FileC == <<SLASH, "d", SLASH, "sub", SLASH, "c.txt">>

Dirs == {DirD, DirSub}
Files == {FileA, FileB, FileC}
Nodes == Dirs \cup Files

\* LCGBackend.__init__: basedir = '/grid' + '/t2k.org'
basedir == <<SLASH, "grid", SLASH, "t2k.org">>

\* GridBackend.full_path; normpath leaves a canonical path as it is
full_path(relpath) == basedir \o relpath

\* GridBackend.ls(remotepath, _iter=True): the names in a directory, in listing order
ls(remotepath) ==
    IF remotepath = DirD THEN <<<<"a.txt">>, <<"b.log">>, <<"sub">>>>
    ELSE IF remotepath = DirSub THEN <<<<"c.txt">>>>
    ELSE <<>>

\* GridBackend._is_dir on a full path: the long listing starts with 'd'
_is_dir(fullpath) == \E d \in Dirs : fullpath = full_path(d)

\* re.compile(recursive).search(element), on the names of the tree
RegexTxt == "\\.txt$"
RegexAB == "^[ab]"
Regexes == {RegexTxt, RegexAB}
regex_search(regex, element) ==
    IF regex = RegexTxt THEN element \in {<<"a.txt">>, <<"c.txt">>}
    ELSE IF regex = RegexAB THEN element \in {<<"a.txt">>, <<"b.log">>}
    ELSE FALSE

\* storage.get_SE(name): the registered SE of that name, or None
get_SE(name) ==
    IF name \in SENames THEN SEs[CHOOSE i \in SEIndex : SEs[i].name = name]
    ELSE NoSE

\* The place of a registered SE in the registry
SENumber(SE) == CHOOSE i \in SEIndex : SEs[i] = SE

\* SE.has_replica(remotepath), answered by the catalogue reps
has_replica(reps, SE, remotepath) ==
    remotepath \in DOMAIN reps /\ SE.name \in reps[remotepath]

\* SE.get_replica(remotepath): the locator of the replica on this SE, or None
NoPath == <<"None">>
get_replica(reps, SE, remotepath) ==
    IF has_replica(reps, SE, remotepath) THEN SE.basepath \o remotepath ELSE NoPath

\* The distances between the registered SEs
Distances ==
    [i \in SEIndex |-> [j \in SEIndex |-> get_distance(SEs[i].location, SEs[j].location)]]

\* get_closest_SE(remotepath, tape) seen from the registered SE number ref: the
\* SE holding a replica that is closest to it, tape SEs only on request, the
\* first one on ties
get_closest_SE(reps, ref, remotepath, tape) ==
    LET cand == {i \in SEIndex : /\ has_replica(reps, SEs[i], remotepath)
                                 /\ (tape \/ SEs[i].type # "tape")}
        d(i) == Distances[i][ref]
    IN  IF cand = {} THEN NoSE
        ELSE SEs[CHOOSE i \in cand :
                    \A j \in cand : d(i) < d(j) \/ (d(i) = d(j) /\ i <= j)]

\* What a call hands back: the error raised ("none" if it returned), the leaf
\* calls entered, in order, each with its outcome, the calls of the raw
\* primitive, in order, and the catalogue afterwards
Result(err, attempts, raw, reps) ==
    [err |-> err, attempts |-> attempts, raw |-> raw, reps |-> reps]

\* LCGBackend._replicate: runs lcg-rep; a tool failure raises ErrorReturnCode
\* unless the caller passed _ok_code; a successful copy leaves a replica at dst
_replicate(reps, remotepath, src, dst, kwargs, broken) ==
    LET rawcall == [path |-> remotepath, src |-> src.name, dst |-> dst.name,
                    source_path |-> get_replica(reps, src, remotepath),
                    destination_path |-> get_storage_path(dst, remotepath),
                    srcHeld |-> has_replica(reps, src, remotepath),
                    dstHeld |-> has_replica(reps, dst, remotepath)]
    IN  IF remotepath \in broken
        THEN IF "_ok_code" \in kwargs
             THEN Result("none", <<[path |-> remotepath, outcome |-> "tool failed"]>>,
                         <<rawcall>>, reps)
             ELSE Result("ErrorReturnCode",
                         <<[path |-> remotepath, outcome |-> "ErrorReturnCode"]>>,
                         <<rawcall>>, reps)
        ELSE Result("none", <<[path |-> remotepath, outcome |-> "transferred"]>>, <<rawcall>>,
                    IF remotepath \in DOMAIN reps
                    THEN [reps EXCEPT ![remotepath] = @ \cup {dst.name}]
                    ELSE reps)

\* A leaf call that raises before the raw primitive is reached
Raise(reps, remotepath, error) ==
    Result(error, <<[path |-> remotepath, outcome |-> error]>>, <<>>, reps)

\* replicate_leaf without the check for a replica at the destination
replicate_leaf_unchecked(reps, remotepath, destination, source, tape, kwargs, broken) ==
    LET dst == get_SE(destination)
    IN  IF dst = NoSE THEN Raise(reps, remotepath, "AttributeError")
        ELSE IF source = "None"
        THEN LET src == get_closest_SE(reps, SENumber(dst), remotepath, tape)
             IN  IF src = NoSE THEN Raise(reps, remotepath, "NoValidSource")
                 ELSE _replicate(reps, remotepath, src, dst, kwargs, broken)
        ELSE LET src == get_SE(source)
             IN  IF src = NoSE THEN Raise(reps, remotepath, "UnknownSE")
                 ELSE IF ~has_replica(reps, src, remotepath)
                 THEN Raise(reps, remotepath, "NoReplicaAtSource")
                 ELSE _replicate(reps, remotepath, src, dst, kwargs, broken)

\* replicate_leaf with an explicit source taken as it is, as get takes it
replicate_leaf_unvalidated_source(reps, remotepath, destination, source, tape, kwargs, broken) ==
    LET dst == get_SE(destination)
    IN  IF dst = NoSE THEN Raise(reps, remotepath, "AttributeError")
        ELSE IF has_replica(reps, dst, remotepath)
        THEN Result("none", <<[path |-> remotepath, outcome |-> "already present"]>>,
                    <<>>, reps)
        ELSE IF source = "None"
        THEN LET src == get_closest_SE(reps, SENumber(dst), remotepath, tape)
             IN  IF src = NoSE THEN Raise(reps, remotepath, "NoValidSource")
                 ELSE _replicate(reps, remotepath, src, dst, kwargs, broken)
        ELSE LET src == get_SE(source)
             IN  IF src = NoSE THEN Raise(reps, remotepath, "UnknownSE")
                 ELSE _replicate(reps, remotepath, src, dst, kwargs, broken)

\* GridBackend.replicate from "Get destination SE" on: a single path
replicate_leaf(reps, remotepath, destination, source, tape, kwargs, broken) ==
    LET dst == get_SE(destination)
    IN  IF dst = NoSE THEN Raise(reps, remotepath, "AttributeError")
        ELSE IF has_replica(reps, dst, remotepath)
        THEN Result("none", <<[path |-> remotepath, outcome |-> "already present"]>>,
                    <<>>, reps)
        ELSE IF source = "None"
        THEN LET src == get_closest_SE(reps, SENumber(dst), remotepath, tape)
             IN  IF src = NoSE THEN Raise(reps, remotepath, "NoValidSource")
                 ELSE _replicate(reps, remotepath, src, dst, kwargs, broken)
        ELSE LET src == get_SE(source)
             IN  IF src = NoSE THEN Raise(reps, remotepath, "UnknownSE")
                 ELSE IF ~has_replica(reps, src, remotepath)
                 THEN Raise(reps, remotepath, "NoReplicaAtSource")
                 ELSE _replicate(reps, remotepath, src, dst, kwargs, broken)

\* The children of a directory that the recursion visits
newpaths(remotepath, recursive) ==
    LET names == ls(remotepath)
        keep(e) == recursive \notin Regexes \/ regex_search(recursive, e)
    IN  [i \in 1..Len(SelectSeq(names, keep)) |->
            posixpath_join(remotepath, SelectSeq(names, keep)[i])]

\* GridBackend.replicate.  recursive is "False", "True" or a regular expression;
\* kwargs is the set of the keyword arguments given.  The recursion calls
\* replicate(path, destination, source, tape, True, _iter=True, _ok_code=...,
\* **kwargs): a keyword given twice is a TypeError.  An error raised for a child
\* ends the iteration over the children.
RECURSIVE replicate(_, _, _, _, _, _, _, _)
RECURSIVE outputs(_, _, _, _, _, _, _)
replicate(reps, remotepath, destination, source, tape, recursive, kwargs, broken) ==
    IF recursive # "False" /\ _is_dir(full_path(remotepath))
    THEN outputs(reps, newpaths(remotepath, recursive), destination, source, tape,
                 kwargs \ {"_iter"}, broken)
    ELSE replicate_leaf(reps, remotepath, destination, source, tape, kwargs, broken)

outputs(reps, paths, destination, source, tape, kwargs, broken) ==
    IF paths = <<>> THEN Result("none", <<>>, <<>>, reps)
    ELSE IF kwargs \cap {"_iter", "_ok_code"} # {}
    THEN Result("TypeError", <<>>, <<>>, reps)
    ELSE LET first == replicate(reps, Head(paths), destination, source, tape, "True",
                                kwargs \cup {"_iter", "_ok_code"}, broken)
             rest == outputs(first.reps, Tail(paths), destination, source, tape,
                             kwargs, broken)
         IN  IF first.err # "none" THEN first
             ELSE Result(rest.err, first.attempts \o rest.attempts,
                         first.raw \o rest.raw, rest.reps)

\* The local file system: one directory and one plain file name
LocalDir == <<SLASH, "tmp">>
LocalFile == <<SLASH, "tmp", SLASH, "out">>
LocalPaths == {LocalDir, LocalFile}
isdir(localpath) == localpath = LocalDir

\* posixpath.basename
basename(p) == IF p = <<>> THEN <<>> ELSE <<p[Len(p)]>>

\* LCGBackend._get: runs lcg-cp on the storage path; a tool failure raises
\* ErrorReturnCode.  There is nothing to copy from a storage path of None.
_get(reps, remotepath, SE, storagepath, localpath, broken) ==
    LET rawcall == [path |-> remotepath, src |-> SE.name, storagepath |-> storagepath,
                    localpath |-> localpath,
                    srcHeld |-> has_replica(reps, SE, remotepath)]
    IN  IF storagepath = NoPath \/ remotepath \in broken
        THEN Result("ErrorReturnCode",
                    <<[path |-> remotepath, outcome |-> "ErrorReturnCode"]>>,
                    <<rawcall>>, reps)
        ELSE Result("none", <<[path |-> remotepath, outcome |-> "downloaded"]>>,
                    <<rawcall>>, reps)

\* GridBackend.get.  home is the registered SE that the module-level
\* get_closest_SE measures from.
get(reps, remotepath, localpath, source, tape, home, broken) ==
    LET SE == IF source = "None" THEN get_closest_SE(reps, home, remotepath, tape)
              ELSE get_SE(source)
    IN  IF SE = NoSE
        THEN Raise(reps, remotepath, IF source = "None" THEN "NoValidSource" ELSE "UnknownSE")
        ELSE LET replica == get_replica(reps, SE, remotepath)
                 target == IF isdir(localpath)
                           THEN posixpath_join(localpath, basename(remotepath))
                           ELSE localpath
             IN  _get(reps, remotepath, SE, replica, target, broken)

\* remove without the protection of the last replica
remove_unprotected(reps, remotepath, destination, final) ==
    LET SE == get_SE(destination)
    IN  IF SE = NoSE THEN Raise(reps, remotepath, "UnknownSE")
        ELSE IF remotepath \notin DOMAIN reps \/ reps[remotepath] = {}
        THEN Raise(reps, remotepath, "DoesNotExist")
        ELSE IF ~has_replica(reps, SE, remotepath)
        THEN Result("none", <<[path |-> remotepath, outcome |-> "no replica"]>>, <<>>, reps)
        ELSE Result("none", <<[path |-> remotepath, outcome |-> "removed"]>>, <<>>,
                    [reps EXCEPT ![remotepath] = @ \ {SE.name}])

\* remove(remotepath, destination, final): the replica on the named SE is
\* deleted; the last replica of a file only with final
remove(reps, remotepath, destination, final) ==
    LET SE == get_SE(destination)
    IN  IF SE = NoSE THEN Raise(reps, remotepath, "UnknownSE")
        ELSE IF remotepath \notin DOMAIN reps \/ reps[remotepath] = {}
        THEN Raise(reps, remotepath, "DoesNotExist")
        ELSE IF ~has_replica(reps, SE, remotepath)
        THEN Result("none", <<[path |-> remotepath, outcome |-> "no replica"]>>, <<>>, reps)
        ELSE IF reps[remotepath] = {SE.name} /\ ~final
        THEN Raise(reps, remotepath, "LastReplicaProtected")
        ELSE Result("none", <<[path |-> remotepath, outcome |-> "removed"]>>, <<>>,
                    [reps EXCEPT ![remotepath] = @ \ {SE.name}])

(***************************************************************************)
(* The grid as a state machine                                             *)
(***************************************************************************)
UnknownSE == "NO-SUCH-SE"
Destinations == SENames \cup {UnknownSE}
Sources == {"None"} \cup SENames \cup {UnknownSE}
Recursives == {"False", "True"} \cup Regexes

\* The transfer tool fails for no file, for one file, or for all
ToolFailures == {{}, {FileA}, Files}

\* At most this many replicas in the catalogue to begin with
MaxInitReplicas == 3

\* The number of replicas in a catalogue
ReplicaCount(reps) ==
    Cardinality({<<f, n>> \in Files \X SENames : n \in reps[f]})

NoCall == [op |-> "none", path |-> <<>>, dest |-> "None", source |-> "None",
           tape |-> FALSE, recursive |-> "False", final |-> FALSE,
           before |-> [f \in Files |-> {}], err |-> "none",
           attempts |-> <<>>, raw |-> <<>>]

GridIdle == replicas = [f \in Files |-> {}] /\ last = NoCall

\* Any catalogue content is a state the grid can be in
GridInit ==
    /\ replicas \in [Files -> SUBSET SENames]
    /\ ReplicaCount(replicas) <= MaxInitReplicas
    /\ last = NoCall

Called(op, r, path, dest, source, tape, recursive, final) ==
    [op |-> op, path |-> path, dest |-> dest, source |-> source, tape |-> tape,
     recursive |-> recursive, final |-> final, before |-> replicas,
     err |-> r.err, attempts |-> r.attempts, raw |-> r.raw]

\* A call of backend.replicate, consumed to the end
Replicate(path, destination, source, tape, recursive, broken) ==
    /\ LET r == replicate(replicas, path, destination, source, tape, recursive, {}, broken)
       IN  /\ replicas' = r.reps
           /\ last' = Called("replicate", r, path, destination, source, tape, recursive, FALSE)

\* A call of backend.get
Get(path, localpath, source, tape, home, broken) ==
    /\ LET r == get(replicas, path, localpath, source, tape, home, broken)
       IN  /\ replicas' = r.reps
           /\ last' = Called("get", r, path, "None", source, tape, "False", FALSE)

\* A call of backend.remove
Remove(path, destination, final) ==
    LET r == remove(replicas, path, destination, final)
    IN  /\ replicas' = r.reps
        /\ last' = Called("remove", r, path, destination, "None", FALSE, "False", final)

(***************************************************************************)
(* cache.py                                                                *)
(***************************************************************************)
\* CacheEntry(value, cache_time=...): creation_time is time() at construction
CacheEntry(value, t, ct) == [value |-> value, creation_time |-> t, cache_time |-> ct]

\* No entry: the None of get_entry
NoEntry == [value |-> "None", creation_time |-> 0 - 1, cache_time |-> 0 - 1]

\* is_valid with the entry still valid at the moment it expires
is_valid_inclusive(entry, t) == (entry.creation_time + entry.cache_time) >= t

\* CacheEntry.is_valid at time t
is_valid(entry, t) == (entry.creation_time + entry.cache_time) > t

\* Cache.hash(*args, **kwargs): the hash of the pickled pair (args, kwargs),
\* represented by the pair itself; the wrapped function is no part of it
hash(args, kwargs) == <<args, kwargs>>

\* Cache.get_entry at time t
get_entry(c, args, kwargs, t) ==
    LET key == hash(args, kwargs)
    IN  IF key \in DOMAIN c
        THEN LET entry == c[key]
             IN  IF is_valid(entry, t) THEN entry ELSE NoEntry
        ELSE NoEntry

\* Cache.add_entry at time t
add_entry(c, ct, value, args, kwargs, t) ==
    LET key == hash(args, kwargs)
    IN  [k \in DOMAIN c \cup {key} |->
            IF k = key THEN CacheEntry(value, t, ct) ELSE c[k]]

\* Cache.clean_cache at time t
clean_cache(c, t) == [k \in {j \in DOMAIN c : is_valid(c[j], t)} |-> c[k]]

\* cached_function with the failure of function stored like a value
cached_function_storing_errors(c, ct, args, kwargs, t, outcome, d) ==
    LET entry == get_entry(c, args, kwargs, t)
    IN  IF entry # NoEntry
        THEN [cache |-> c, now |-> t, invoked |-> FALSE, err |-> "none",
              value |-> entry.value]
        ELSE [cache |-> add_entry(c, ct, outcome, args, kwargs, t + d), now |-> t + d,
              invoked |-> TRUE, err |-> IF outcome = "raise" THEN "Exception" ELSE "none",
              value |-> IF outcome = "raise" THEN "None" ELSE outcome]

\* The function made by Cache.cached(function), called at time t.  outcome is
\* what function does if it is called: it returns a value, or it raises; it
\* takes the time d.
cached_function(c, ct, args, kwargs, t, outcome, d) ==
    LET entry == get_entry(c, args, kwargs, t)
    IN  IF entry # NoEntry
        THEN [cache |-> c, now |-> t, invoked |-> FALSE, err |-> "none",
              value |-> entry.value]
        ELSE IF outcome = "raise"
        THEN [cache |-> c, now |-> t + d, invoked |-> TRUE, err |-> "Exception",
              value |-> "None"]
        ELSE [cache |-> add_entry(c, ct, outcome, args, kwargs, t + d), now |-> t + d,
              invoked |-> TRUE, err |-> "none", value |-> outcome]

(***************************************************************************)
(* The cache as a state machine: two functions wrapped by one Cache        *)
(***************************************************************************)
MaxTime == 4
MaxCacheTime == 2
MaxDuration == 1

Funcs == {"f", "g"}
Values == {"v1", "v2"}
\* Argument lists: the same two values in both orders, without keyword arguments
ArgLists == {<<"x", "y">>, <<"y", "x">>}
NoKwargs == {}

\* The last call: the cache and the clock when it began and when it ended
NotCalled == [func |-> "none", args |-> <<>>, kwargs |-> NoKwargs, start |-> 0,
              before |-> <<>>, end |-> 0, after |-> <<>>,
              invoked |-> FALSE, err |-> "none", value |-> "None"]

CacheIdle == cache = <<>> /\ cache_time = 0 /\ now = 0 /\ call = NotCalled

\* Cache(cache_time)
CacheInit ==
    /\ cache = <<>>
    /\ cache_time \in 0..MaxCacheTime
    /\ now = 0
    /\ call = NotCalled

\* A call of the cached function func
CachedCall(func, args, kwargs, outcome, d) ==
    /\ now + d <= MaxTime
    /\ LET r == cached_function(cache, cache_time, args, kwargs, now, outcome, d)
       IN  /\ cache' = r.cache
           /\ now' = r.now
           /\ call' = [func |-> func, args |-> args, kwargs |-> kwargs, start |-> now,
                       before |-> cache, end |-> r.now, after |-> r.cache,
                       invoked |-> r.invoked, err |-> r.err, value |-> r.value]
    /\ UNCHANGED cache_time

\* A call of Cache.clean_cache
CleanCache ==
    /\ cache' = clean_cache(cache, now)
    /\ UNCHANGED <<cache_time, now, call>>

\* Time passes
Tick ==
    /\ now < MaxTime
    /\ now' = now + 1
    /\ UNCHANGED <<cache, cache_time, call>>

(***************************************************************************)
(* backends.py: the long listing of the replicas of a file                 *)
(***************************************************************************)
SP == " "
Whitespace == {SP, NL}

\* str.split() without a separator: the pieces between runs of whitespace
RECURSIVE split_ws(_)
split_ws(text) ==
    IF text = <<>> THEN <<>>
    ELSE IF Head(text) \in Whitespace THEN split_ws(Tail(text))
    ELSE LET n == IF \E k \in 1..Len(text) : text[k] \in Whitespace
                  THEN CHOOSE k \in 1..Len(text) :
                          text[k] \in Whitespace /\ \A j \in 1..(k - 1) : text[j] \notin Whitespace
                  ELSE Len(text) + 1
         IN  <<Take(text, n - 1)>> \o split_ws(Drop(text, n - 1))

\* What a run of an external command gives: it fails with sh.ErrorReturnCode
\* or it returns its output
Failed == [err |-> TRUE, out |-> <<>>]
Output(text) == [err |-> FALSE, out |-> text]

\* What a method gives: a value, or the error it raises
Returned(v) == [err |-> "none", val |-> v]
Raises(error) == [err |-> error, val |-> <<>>]

\* LCGBackend._replica_state, given the run of lcg-ls -l on the locator
_replica_state(run) ==
    LET text == IF run.err THEN <<"-", SP, "-", SP, "-", SP, "-", SP, "-", SP, "?">>
                ELSE run.out
        fields == split_ws(text)
    IN  IF Len(fields) < 6 THEN Raises("IndexError") ELSE Returned(fields[6])

\* LCGBackend._replica_checksum, given the run of lcg-get-checksum on the locator
_replica_checksum(run) ==
    LET text == IF run.err THEN <<"?", SP, "-">> ELSE run.out
        fields == split_ws(text)
    IN  IF fields = <<>> THEN Returned(<<"?">>) ELSE Returned(fields[1])

\* "%-32s %-4s %-7s %8.8s %s": the five values with a blank between them, the
\* fourth cut to 8 characters; the padding to the column widths is left out
format(name, type, state, checksum, rep) ==
    LET cut == IF Len(checksum) > 8 THEN Take(checksum, 8) ELSE checksum
    IN  <<name, SP, type, SP>> \o state \o <<SP>> \o cut \o <<SP>> \o rep

\* GridBackend._add_replica_info(rep), given the runs of the two queries on rep;
\* the state is queried first
_add_replica_info(rep, staterun, checksumrun) ==
    LET SE == get_SE_by_path(rep)
        state == _replica_state(staterun)
        checksum == _replica_checksum(checksumrun)
    IN  IF state.err # "none" THEN Raises(state.err)
        ELSE IF checksum.err # "none" THEN Raises(checksum.err)
        ELSE IF SE # NoSE
        THEN Returned(format(SE.name, SE.type, state.val, checksum.val, rep))
        ELSE Returned(format("UNKNOWN", "?", state.val, checksum.val, rep))

\* The generator (self._add_replica_info(line) for line in self._replicas(...)),
\* consumed to the end: the lines it yields and the error that ends it, if any
RECURSIVE enriched(_, _, _)
enriched(raw, stateruns, checksumruns) ==
    IF raw = <<>> THEN Returned(<<>>)
    ELSE LET first == _add_replica_info(Head(raw), Head(stateruns), Head(checksumruns))
             rest == enriched(Tail(raw), Tail(stateruns), Tail(checksumruns))
         IN  IF first.err # "none" THEN first
             ELSE [err |-> rest.err, val |-> <<first.val>> \o rest.val]

\* GridBackend.replicas(remotepath, long=l, _iter=it), given the lines of lcg-lr
\* and the runs of the queries for each of them
replicas_listing(raw, stateruns, checksumruns, l, it) ==
    IF l
    THEN LET lines == enriched(raw, stateruns, checksumruns)
         IN  [err |-> lines.err, yielded |-> lines.val,
              out |-> IF lines.err = "none"
                      THEN _iterable_output_from_iterable(lines.val, it)
                      ELSE Raised(lines.err)]
    ELSE [err |-> "none", yielded |-> raw, out |-> _iterable_output_from_iterable(raw, it)]

(***************************************************************************)
(* The long listing as a state machine                                     *)
(***************************************************************************)
\* At most this many replicas in a listing
MaxListed == 2

\* A host that no registered SE has
OtherHost == <<"se03.esc.qmul.ac.uk">>

\* The locator of a replica on a host, as a line of lcg-lr
Locator(host) == <<"srm:", "/", "/">> \o host \o <<"/", "t2k.org", "/", "f", NL>>
Locators == {Locator(h) : h \in {SEs[1].host, SEs[3].host, OtherHost}}

\* The output of lcg-ls -l cut down to its first n fields; the sixth is the state
RECURSIVE LongListing(_)
LongListing(n) ==
    IF n = 0 THEN <<>>
    ELSE IF n = 1 THEN <<"-rw-r--r--">>
    ELSE LongListing(n - 1) \o <<SP, IF n = 6 THEN "ONLINE" ELSE "1">>

\* Runs of lcg-ls -l: a failure, no output, too few fields, the state as the
\* last field, a complete line
StateRuns ==
    {Failed, Output(<<>>), Output(LongListing(3) \o <<NL>>),
     Output(LongListing(6) \o <<NL>>), Output(LongListing(7) \o <<NL>>)}

\* Runs of lcg-get-checksum: a failure, no output, a blank line, a checksum
\* followed by the locator, a checksum of more than 8 characters
ChecksumRuns ==
    {Failed, Output(<<>>), Output(<<NL>>),
     Output(<<"5", "2", "9", "5", "0", "6", "c", "1", SP, "f", NL>>),
     Output(<<"5", "2", "9", "5", "0", "6", "c", "1", "0", NL>>)}

ListingIdle == [pc |-> "idle", raw |-> <<>>, stateruns |-> <<>>, checksumruns |-> <<>>,
                long |-> FALSE, it |-> FALSE, err |-> "none", yielded |-> <<>>,
                out |-> Unset]

ListingInit == listing = [ListingIdle EXCEPT !.pc = "start"]

\* A call of backend.replicas, its output consumed to the end
Replicas(raw, stateruns, checksumruns, l, it) ==
    /\ LET r == replicas_listing(raw, stateruns, checksumruns, l, it)
       IN  listing' = [pc |-> "done", raw |-> raw, stateruns |-> stateruns,
                       checksumruns |-> checksumruns, long |-> l, it |-> it,
                       err |-> r.err, yielded |-> r.yielded, out |-> r.out]

(***************************************************************************)
(* backends.py: the output of replicate and get                            *)
(***************************************************************************)
\* Iterating over the output of a command run with _iter=True: its lines, each
\* with its line terminator; a last line without one comes as it is
RECURSIVE iterlines(_)
iterlines(text) ==
    IF text = <<>> THEN <<>>
    ELSE IF \E k \in 1..Len(text) : text[k] = NL
    THEN LET n == CHOOSE k \in 1..Len(text) : text[k] = NL /\ \A j \in 1..(k - 1) : text[j] # NL
         IN  <<Take(text, n)>> \o iterlines(Drop(text, n))
    ELSE <<text>>

\* None where a line is expected
NoLine == <<"None">>

\* LCGBackend._ignore_identical_lines, from the point where last_line is set
RECURSIVE _ignore_identical_lines_after(_, _)
_ignore_identical_lines_after(iterable, last_line) ==
    IF iterable = <<>> THEN <<>>
    ELSE IF Head(iterable) = last_line
    THEN _ignore_identical_lines_after(Tail(iterable), last_line)
    ELSE <<Head(iterable)>> \o _ignore_identical_lines_after(Tail(iterable), Head(iterable))

\* LCGBackend._ignore_identical_lines
_ignore_identical_lines(iterable) == _ignore_identical_lines_after(iterable, NoLine)

\* What LCGBackend._replicate and LCGBackend._get return for the output text of
\* lcg-rep and lcg-cp
transfer_output(text, it) ==
    _iterable_output_from_iterable(_ignore_identical_lines(iterlines(text)), it)

\* "%s\nReplica already present at destination storage element %s.\n"
present_text(remotepath, name) ==
    remotepath \o <<NL, "Replica already present at destination storage element ",
                    name, ".", NL>>

\* What a leaf call of replicate or get that ended as attempt returns in the
\* shape it; tool is the output text of the transfer tool for each file
leaf_output(attempt, destination, tool, it) ==
    IF attempt.outcome = "already present"
    THEN _iterable_output_from_text(present_text(attempt.path, get_SE(destination).name), it)
    ELSE IF attempt.outcome \in {"transferred", "tool failed", "downloaded"}
    THEN transfer_output(tool[attempt.path], it)
    ELSE Raised(attempt.outcome)

\* itertools.chain.from_iterable over the outputs of the children, each asked
\* for with _iter=True
RECURSIVE chain(_, _, _)
chain(attempts, destination, tool) ==
    IF attempts = <<>> THEN <<>>
    ELSE leaf_output(Head(attempts), destination, tool, TRUE).val
            \o chain(Tail(attempts), destination, tool)

\* What replicate returns when its call ended as r, consumed to the end
replicate_output(r, remotepath, destination, recursive, tool, it) ==
    IF r.err # "none" THEN Raised(r.err)
    ELSE IF recursive # "False" /\ _is_dir(full_path(remotepath))
    THEN _iterable_output_from_iterable(chain(r.attempts, destination, tool), it)
    ELSE leaf_output(r.attempts[1], destination, tool, it)

\* What get returns when its call ended as r
get_output(r, tool, it) ==
    IF r.err # "none" THEN Raised(r.err)
    ELSE leaf_output(r.attempts[1], "None", tool, it)

(***************************************************************************)
(* The output of replicate and get as a state machine                      *)
(***************************************************************************)
\* The output text of the transfer tool: at most this many characters
MaxToolLen == 3
ToolAlphabet == {"a", NL}
ToolTexts == SeqsUpTo(ToolAlphabet, MaxToolLen)

\* The files for which a call on path may run the transfer tool
Touched(path) ==
    IF path \in Files THEN {path} ELSE {f \in Files : StartsWith(f, path \o <<SLASH>>)}

\* Catalogues: every file has no replica or one on the second SE of the registry
OutputCatalogues == [Files -> {{}, {SEs[2].name}}]
OutputDestinations == {SEs[2].name, SEs[3].name}
OutputFailures == {{}, {FileA}}

XferIdle == [pc |-> "idle", tool |-> <<>>, it |-> FALSE, out |-> Unset]

OutputInit ==
    /\ replicas \in OutputCatalogues
    /\ last = NoCall
    /\ xfer = [XferIdle EXCEPT !.pc = "start"]

\* A call of backend.replicate with _iter=it, its output consumed to the end
ReplicateOutput(path, destination, recursive, broken, tool, it) ==
    LET r == replicate(replicas, path, destination, "None", TRUE, recursive,
                       IF it THEN {"_iter"} ELSE {}, broken)
    IN  /\ replicas' = r.reps
        /\ last' = Called("replicate", r, path, destination, "None", TRUE, recursive, FALSE)
        /\ xfer' = [pc |-> "done", tool |-> tool, it |-> it,
                    out |-> replicate_output(r, path, destination, recursive, tool, it)]

\* A call of backend.get with _iter=it, its output consumed to the end
GetOutput(path, localpath, home, broken, tool, it) ==
    LET r == get(replicas, path, localpath, "None", TRUE, home, broken)
    IN  /\ replicas' = r.reps
        /\ last' = Called("get", r, path, "None", "None", TRUE, "False", FALSE)
        /\ xfer' = [pc |-> "done", tool |-> tool, it |-> it, out |-> get_output(r, tool, it)]

(***************************************************************************)
(* The history of the stores: for every key, the invocation whose value    *)
(* add_entry stored under it last                                          *)
(***************************************************************************)
\* The history after a call of cached_function that ended as r
Stored(p, func, args, kwargs, r) ==
    IF r.invoked /\ r.err = "none"
    THEN LET key == hash(args, kwargs)
         IN  [k \in DOMAIN p \cup {key} |->
                 IF k = key THEN [func |-> func, args |-> args, kwargs |-> kwargs]
                 ELSE p[k]]
    ELSE p

\* A call of the cached function func, with the history kept
RecordedCall(func, args, kwargs, outcome, d) ==
    /\ CachedCall(func, args, kwargs, outcome, d)
    /\ producer' = Stored(producer, func, args, kwargs,
                          cached_function(cache, cache_time, args, kwargs, now, outcome, d))

(***************************************************************************)
(* Parts of the state that a specification leaves alone                    *)
(***************************************************************************)
ProducerIdle == producer = <<>>
ListingUnused == listing = ListingIdle
XferUnused == xfer = XferIdle

(***************************************************************************)
(* Specifications, one per component                                       *)
(***************************************************************************)
ConvUnused == conv = ConvIdle
GeoUnused == geo = GeoIdle
LocUnused == loc = LocIdle

\* Output shaping
ShapeInit == ConvInit /\ GeoUnused /\ LocUnused /\ GridIdle /\ CacheIdle
    /\ ProducerIdle /\ ListingUnused /\ XferUnused
ShapeNext ==
    /\ \/ \E it \in BOOLEAN : FromText(it)
       \/ \E it \in BOOLEAN : FromIterable(it)
    /\ UNCHANGED <<geo, loc, replicas, last, cache, cache_time, now, call, producer, listing, xfer>>
SpecShape == ShapeInit /\ [][ShapeNext]_vars

\* Distance metric
DistanceInit == GeoInit /\ ConvUnused /\ LocUnused /\ GridIdle /\ CacheIdle
    /\ ProducerIdle /\ ListingUnused /\ XferUnused
DistanceNext ==
    /\ Measure
    /\ UNCHANGED <<conv, loc, replicas, last, cache, cache_time, now, call, producer, listing, xfer>>
SpecDistance == DistanceInit /\ [][DistanceNext]_vars

\* Locator construction
LocatorInit == LocInit /\ ConvUnused /\ GeoUnused /\ GridIdle /\ CacheIdle
    /\ ProducerIdle /\ ListingUnused /\ XferUnused
LocatorNext ==
    /\ Locate
    /\ UNCHANGED <<conv, geo, replicas, last, cache, cache_time, now, call, producer, listing, xfer>>
SpecLocator == LocatorInit /\ [][LocatorNext]_vars

\* replicate on the grid
GridStart == GridInit /\ ConvUnused /\ GeoUnused /\ LocUnused /\ CacheIdle
    /\ ProducerIdle /\ ListingUnused /\ XferUnused
ReplicateNext ==
    /\ last.op = "none"
    /\ \E path \in Nodes, destination \in Destinations, source \in Sources,
          tape \in BOOLEAN, recursive \in Recursives, broken \in ToolFailures :
            Replicate(path, destination, source, tape, recursive, broken)
    /\ UNCHANGED <<conv, geo, loc, cache, cache_time, now, call, producer, listing, xfer>>
SpecReplicate == GridStart /\ [][ReplicateNext]_vars

\* get on the grid
GetNext ==
    /\ last.op = "none"
    /\ \E path \in Nodes, localpath \in LocalPaths, source \in Sources,
          tape \in BOOLEAN, home \in SEIndex,
          broken \in ToolFailures :
            Get(path, localpath, source, tape, home, broken)
    /\ UNCHANGED <<conv, geo, loc, cache, cache_time, now, call, producer, listing, xfer>>
SpecGet == GridStart /\ [][GetNext]_vars

\* remove on the grid, any number of times
RemoveNext ==
    /\ \E path \in Nodes, destination \in Destinations, final \in BOOLEAN :
            Remove(path, destination, final)
    /\ UNCHANGED <<conv, geo, loc, cache, cache_time, now, call, producer, listing, xfer>>
SpecRemove == GridStart /\ [][RemoveNext]_vars

\* The cache
CacheStart == CacheInit /\ ConvUnused /\ GeoUnused /\ LocUnused /\ GridIdle
    /\ ProducerIdle /\ ListingUnused /\ XferUnused
CacheNext ==
    /\ \/ \E func \in Funcs, args \in ArgLists, outcome \in Values \cup {"raise"},
             d \in 0..MaxDuration :
                CachedCall(func, args, NoKwargs, outcome, d)
       \/ CleanCache
       \/ Tick
    /\ UNCHANGED <<conv, geo, loc, replicas, last, producer, listing, xfer>>
SpecCache == CacheStart /\ [][CacheNext]_vars

\* The output of replicate and get
OutputStart == OutputInit /\ ConvUnused /\ GeoUnused /\ LocUnused /\ CacheIdle
    /\ ProducerIdle /\ ListingUnused
OutputNext ==
    /\ xfer.pc = "start"
    /\ \/ \E path \in Nodes, destination \in OutputDestinations, recursive \in Recursives,
             broken \in OutputFailures, it \in BOOLEAN :
            \E tool \in [Touched(path) -> ToolTexts] :
                ReplicateOutput(path, destination, recursive, broken, tool, it)
       \/ \E path \in Files, localpath \in LocalPaths, broken \in OutputFailures,
             it \in BOOLEAN :
            \E tool \in [Touched(path) -> ToolTexts] :
                GetOutput(path, localpath, 1, broken, tool, it)
    /\ UNCHANGED <<conv, geo, loc, cache, cache_time, now, call, producer, listing>>
SpecOutput == OutputStart /\ [][OutputNext]_vars

\* The long listing of replicas
ListingStart == ListingInit /\ ConvUnused /\ GeoUnused /\ LocUnused /\ GridIdle /\ CacheIdle
    /\ ProducerIdle /\ XferUnused
ListingNext ==
    /\ listing.pc = "start"
    /\ \E n \in 0..MaxListed :
        \E raw \in [1..n -> Locators], stateruns \in [1..n -> StateRuns],
           checksumruns \in [1..n -> ChecksumRuns], l \in BOOLEAN, it \in BOOLEAN :
            Replicas(raw, stateruns, checksumruns, l, it)
    /\ UNCHANGED <<conv, geo, loc, replicas, last, cache, cache_time, now, call,
                   producer, xfer>>
SpecListing == ListingStart /\ [][ListingNext]_vars

\* The cache with the history of its stores
ProvenanceStart == CacheInit /\ ConvUnused /\ GeoUnused /\ LocUnused /\ GridIdle
    /\ ProducerIdle /\ ListingUnused /\ XferUnused
ProvenanceNext ==
    /\ \/ \E func \in Funcs, args \in ArgLists, outcome \in Values \cup {"raise"},
             d \in 0..MaxDuration :
                RecordedCall(func, args, NoKwargs, outcome, d)
       \/ CleanCache /\ UNCHANGED producer
       \/ Tick /\ UNCHANGED producer
    /\ UNCHANGED <<conv, geo, loc, replicas, last, listing, xfer>>
SpecProvenance == ProvenanceStart /\ [][ProvenanceNext]_vars

(***************************************************************************)
(* Properties                                                              *)
(***************************************************************************)
\* The leaf calls of the last replicate call
Attempt(i) == last.attempts[i]
Attempted(path) == \E i \in DOMAIN last.attempts : Attempt(i).path = path
Transferred(path) == \E i \in DOMAIN last.raw : last.raw[i].path = path

\* C1: a leaf call of replicate for a path of which the destination already
\* holds a replica returns with the "already present" message and never calls
\* the raw primitive _replicate for it, whatever source and tape are; the call
\* itself returns without an error when it is such a leaf call.
IdempotentReplicate ==
    last.op = "replicate" =>
        /\ \A i \in DOMAIN last.attempts :
              (Attempt(i).path \in Files /\ last.dest \in last.before[Attempt(i).path]) =>
                  /\ Attempt(i).outcome = "already present"
                  /\ ~Transferred(Attempt(i).path)
                  /\ replicas[Attempt(i).path] = last.before[Attempt(i).path]
        /\ (last.path \in Files /\ last.dest \in last.before[last.path]) =>
              /\ last.err = "none"
              /\ last.attempts = <<[path |-> last.path, outcome |-> "already present"]>>
              /\ last.raw = <<>>

\* A leaf call with an explicit source and tape=True found the replica at the
\* destination
IdempotentReplicateWitness ==
    /\ last.op = "replicate"
    /\ last.path \in Files
    /\ last.dest \in last.before[last.path]
    /\ last.source \in SENames /\ last.source # last.dest
    /\ last.tape
    /\ last.attempts = <<[path |-> last.path, outcome |-> "already present"]>>

\* The SE named in the last remove held the only replica of the file
OnlyReplicaBefore ==
    last.path \in Files /\ last.before[last.path] = {last.dest}

\* C2: remove without the override flag on the SE holding the only replica
\* fails with LastReplicaProtected and leaves the replicas as they were; with
\* the override flag it succeeds and the SE no longer has the replica; no
\* remove without the override flag takes the last replica of a file away.
LastReplicaProtection ==
    last.op = "remove" =>
        /\ (OnlyReplicaBefore /\ ~last.final) =>
              last.err = "LastReplicaProtected" /\ replicas = last.before
        /\ (OnlyReplicaBefore /\ last.final) =>
              /\ last.err = "none"
              /\ ~has_replica(replicas, get_SE(last.dest), last.path)
        /\ (last.path \in Files /\ ~last.final /\ last.before[last.path] # {}) =>
              replicas[last.path] # {}

\* The only replica was removed with the override flag
LastReplicaProtectionWitness ==
    /\ last.op = "remove"
    /\ OnlyReplicaBefore
    /\ last.final
    /\ replicas[last.path] = {}

\* The entry that the last call found under its key, if any
CallKey == hash(call.args, call.kwargs)
StoredBefore == CallKey \in DOMAIN call.before
ExpiryBefore == call.before[CallKey].creation_time + call.before[CallKey].cache_time

\* C3: a call made while now < creation + ttl of the stored entry does not
\* invoke the underlying operation and returns the stored value; a call made
\* when now >= creation + ttl (or with nothing stored) invokes it, and when it
\* returns the entry is overwritten with creation = now.
CacheHitExpiry ==
    call.func # "none" =>
        /\ (StoredBefore /\ call.start < ExpiryBefore) =>
              /\ ~call.invoked
              /\ call.err = "none"
              /\ call.value = call.before[CallKey].value
              /\ call.after = call.before
        /\ (~StoredBefore \/ call.start >= ExpiryBefore) =>
              /\ call.invoked
              /\ call.err = "none" =>
                    /\ CallKey \in DOMAIN call.after
                    /\ call.after[CallKey] = CacheEntry(call.value, call.end, cache_time)

\* A call found an expired entry, invoked the operation and overwrote the entry
CacheHitExpiryWitness ==
    /\ call.func # "none"
    /\ StoredBefore
    /\ cache_time > 0
    /\ call.start >= ExpiryBefore
    /\ call.invoked
    /\ call.err = "none"
    /\ call.after[CallKey].creation_time = call.end
    /\ call.after[CallKey].value # call.before[CallKey].value

\* C4: when the underlying operation fails, the cache is as it was before the
\* call and the caller gets the error; the next call with the same arguments
\* invokes the underlying operation again.
ErrorsNotMemoized ==
    /\ [](call.err # "none" => call.invoked /\ call.after = call.before)
    /\ [][(/\ call.err # "none"
           /\ call'.func # "none"
           /\ call'.args = call.args /\ call'.kwargs = call.kwargs
           /\ call'.start >= call.end) => call'.invoked]_vars

\* The operation failed in a call that had found an expired entry under its key
ErrorsNotMemoizedWitness ==
    /\ call.func # "none"
    /\ call.err # "none"
    /\ call.invoked
    /\ StoredBefore
    /\ call.after = call.before

\* C5: a text blob turned into lines and joined again is the blob, also when it
\* does or does not end with a line terminator and when it is empty.
OutputShapeRoundTrip ==
    /\ conv.it1 => conv.pc # "raised"
    /\ (conv.pc = "done" /\ conv.it1 /\ ~conv.it2) => conv.back = TextValue(conv.text)

\* The immediate children of the directory of the last replicate call
Child(e) == posixpath_join(last.path, e)
ChildNames == {ls(last.path)[i] : i \in DOMAIN ls(last.path)}

\* C6: replicate on a directory with a pattern never calls the raw primitive
\* for an immediate child whose name does not match, and attempts every
\* immediate child whose name matches.
FilteredRecursiveReplicate ==
    (last.op = "replicate" /\ last.recursive \in Regexes /\ last.path \in Dirs) =>
        \A e \in ChildNames :
            IF regex_search(last.recursive, e)
            THEN Attempted(Child(e))
            ELSE \A i \in DOMAIN last.raw : ~StartsWith(last.raw[i].path, Child(e))

\* C7: get with an explicit registered source that has no replica fails with
\* NoReplicaAtSource like replicate, without calling _get; with an unknown
\* source it fails with the unknown-SE error, without calling _get.
ExplicitSourceValidation ==
    (last.op = "get" /\ last.path \in Files /\ last.source # "None") =>
        /\ (last.source \in SENames /\ ~has_replica(last.before, get_SE(last.source), last.path))
              => last.err = "NoReplicaAtSource" /\ last.raw = <<>>
        /\ last.source \notin SENames => last.err = "UnknownSE" /\ last.raw = <<>>

\* The number of leading path segments that two locations share
RECURSIVE SharedLeading(_, _)
SharedLeading(a, b) ==
    IF a = <<>> \/ b = <<>> \/ Head(a) # Head(b) THEN 0
    ELSE 1 + SharedLeading(Tail(a), Tail(b))
Segments(a) == SelectSeq(split(a, SLASH), LAMBDA c : c # <<>>)
SharedPathPrefix(a, b) == SharedLeading(Segments(a), Segments(b))

\* C8: if the location of x shares a strictly longer path prefix with the
\* location of ref than that of y does, x is strictly closer to ref than y.
DistanceMonotonicity ==
    (geo.pc = "done" /\ SharedPathPrefix(geo.x, geo.ref) > SharedPathPrefix(geo.y, geo.ref))
        => geo.dx < geo.dy

\* C9: the storage path of a logical path on a registered SE is the base path
\* followed by the logical path; it begins with the base path, contains the
\* host, and get_SE_by_path finds an SE with that host for it.
LocatorConstruction ==
    loc.pc = "done" =>
        /\ loc.storagepath = SEs[loc.se].basepath \o loc.path
        /\ StartsWith(loc.storagepath, SEs[loc.se].basepath)
        /\ Contains(loc.storagepath, SEs[loc.se].host)
        /\ loc.found.host = SEs[loc.se].host

\* The outcomes of a leaf call that are failures
FailureOutcomes == {"tool failed", "ErrorReturnCode", "NoValidSource",
                    "NoReplicaAtSource", "UnknownSE", "AttributeError"}

\* C10: when replicate runs recursively over a directory of files and the
\* replication of a child fails, the failure does not reach the caller and
\* every child that the recursion visits is attempted.
PerChildFailureIsolation ==
    (/\ last.op = "replicate" /\ last.recursive # "False" /\ last.path \in Dirs
     /\ \A i \in DOMAIN newpaths(last.path, last.recursive) :
            newpaths(last.path, last.recursive)[i] \in Files
     /\ \E i \in DOMAIN last.attempts : Attempt(i).outcome \in FailureOutcomes) =>
        /\ last.err = "none"
        /\ \A i \in DOMAIN newpaths(last.path, last.recursive) :
              Attempted(newpaths(last.path, last.recursive)[i])

\* The files anywhere beneath a directory
FilesBeneath(dir) == {f \in Files : StartsWith(f, dir \o <<SLASH>>)}

\* The last call was replicate(dir, destination, recursive=True) with a
\* registered destination and every file beneath dir has a replica that the
\* automatic choice of the source may take
RecursiveOverTree ==
    /\ last.op = "replicate" /\ last.recursive = "True" /\ last.path \in Dirs
    /\ last.dest \in SENames /\ last.source = "None" /\ last.tape
    /\ \A f \in FilesBeneath(last.path) : last.before[f] # {}

\* C11: replicate(dir, destination, recursive=True) descends into
\* sub-directories: the call ends without an internal error, and every file
\* beneath dir, at any depth, is reported as already present at the destination
\* or handed to the raw primitive _replicate.
RecursiveCoversTree ==
    RecursiveOverTree =>
        /\ last.err = "none"
        /\ \A f \in FilesBeneath(last.path) :
              \/ \E i \in DOMAIN last.attempts :
                    Attempt(i).path = f /\ Attempt(i).outcome = "already present"
              \/ Transferred(f)

\* The same for a directory that holds files only
RecursiveCoversFlatTree ==
    (RecursiveOverTree /\ last.path = DirSub) =>
        /\ last.err = "none"
        /\ Transferred(FileC) \/ last.dest \in last.before[FileC]

\* C15: whenever a leaf call of replicate reaches the raw primitive _replicate,
\* the source SE holds a replica of the path and the destination SE does not,
\* so they are different SEs, for an automatic and for an explicit source; a
\* leaf call with the explicit source equal to a destination without a replica
\* fails with NoReplicaAtSource and transfers nothing.
SourceDiffersFromDestination ==
    last.op = "replicate" =>
        /\ \A i \in DOMAIN last.raw :
              /\ last.raw[i].srcHeld
              /\ ~last.raw[i].dstHeld
              /\ last.raw[i].src # last.raw[i].dst
              /\ last.raw[i].dst = last.dest
              /\ last.source # "None" => last.raw[i].src = last.source
        /\ (/\ last.path \in Files /\ last.source = last.dest /\ last.dest \in SENames
            /\ last.dest \notin last.before[last.path]) =>
              last.err = "NoReplicaAtSource" /\ last.raw = <<>> /\ replicas = last.before

\* A recursive call with an explicit source reached the raw primitive for two
\* files that the source held and the destination did not
SourceDiffersFromDestinationWitness ==
    /\ last.op = "replicate"
    /\ last.source \in SENames
    /\ Len(last.raw) >= 2
    /\ last.raw[1].src = last.source /\ last.raw[1].src # last.raw[1].dst
    /\ last.raw[2].srcHeld /\ ~last.raw[2].dstHeld

\* C14: a value that a cached function returns from the cache instead of
\* invoking the underlying function was produced by an earlier invocation of
\* the same function with the same argument list; two functions wrapped by one
\* Cache, and two argument lists, never get each other's stored values.
CacheValueProvenance ==
    (call.func # "none" /\ ~call.invoked) =>
        /\ CallKey \in DOMAIN producer
        /\ producer[CallKey].func = call.func
        /\ producer[CallKey].args = call.args
        /\ producer[CallKey].kwargs = call.kwargs

\* The same for the argument lists alone
CacheValueOfSameArguments ==
    (call.func # "none" /\ ~call.invoked) =>
        /\ CallKey \in DOMAIN producer
        /\ producer[CallKey].args = call.args
        /\ producer[CallKey].kwargs = call.kwargs
        /\ call.value = call.before[CallKey].value

\* The lines of an output in either shape, each with its line terminator
OutLines(out) == IF out.kind = "iter" THEN out.val ELSE iterlines(out.val)

\* The queries of the i-th locator of the last listing that give no state, no checksum
NoState(i) ==
    listing.stateruns[i].err \/ Len(split_ws(listing.stateruns[i].out)) < 6
NoChecksum(i) ==
    listing.checksumruns[i].err \/ split_ws(listing.checksumruns[i].out) = <<>>

\* C12: replicas with long=True gives exactly one enriched line for every raw
\* locator, in the same order; a state or checksum query that fails or gives
\* malformed output puts '?' into the line of its locator and neither ends the
\* listing nor takes away the lines of the others; a locator of no registered
\* host is listed as 'UNKNOWN' with the type '?'.
DegradedReplicaEnrichment ==
    (listing.pc = "done" /\ listing.long) =>
        /\ listing.err = "none"
        /\ listing.out.kind = IF listing.it THEN "iter" ELSE "text"
        /\ Len(OutLines(listing.out)) = Len(listing.raw)
        /\ \A i \in DOMAIN listing.raw :
              LET fields == split_ws(OutLines(listing.out)[i])
                  SE == get_SE_by_path(listing.raw[i])
              IN  /\ Len(fields) = 5
                  /\ fields[5] \o <<NL>> = listing.raw[i]
                  /\ NoState(i) => fields[3] = <<"?">>
                  /\ NoChecksum(i) => fields[4] = <<"?">>
                  /\ fields[1] = <<IF SE = NoSE THEN "UNKNOWN" ELSE SE.name>>
                  /\ fields[2] = <<IF SE = NoSE THEN "?" ELSE SE.type>>

\* The same when every state query fails or gives at least six fields
DegradedEnrichmentOfStates ==
    (/\ listing.pc = "done" /\ listing.long
     /\ \A i \in DOMAIN listing.raw :
            listing.stateruns[i].err \/ Len(split_ws(listing.stateruns[i].out)) >= 6) =>
        /\ listing.err = "none"
        /\ Len(OutLines(listing.out)) = Len(listing.raw)
        /\ \A i \in DOMAIN listing.raw :
              LET fields == split_ws(OutLines(listing.out)[i])
                  SE == get_SE_by_path(listing.raw[i])
              IN  /\ Len(fields) = 5
                  /\ fields[5] \o <<NL>> = listing.raw[i]
                  /\ NoState(i) => fields[3] = <<"?">>
                  /\ NoChecksum(i) => fields[4] = <<"?">>
                  /\ fields[1] = <<IF SE = NoSE THEN "UNKNOWN" ELSE SE.name>>
                  /\ fields[2] = <<IF SE = NoSE THEN "?" ELSE SE.type>>

\* A line without its line terminator
Content(line) ==
    IF line # <<>> /\ line[Len(line)] = NL THEN Take(line, Len(line) - 1) ELSE line
Contents(lines) == [i \in DOMAIN lines |-> Content(lines[i])]

\* Lines with every run of equal neighbours reduced to its first line
RECURSIVE CollapsedFrom(_, _)
CollapsedFrom(lines, i) ==
    IF i > Len(lines) THEN <<>>
    ELSE (IF i > 1 /\ lines[i] = lines[i - 1] THEN <<>> ELSE <<lines[i]>>)
            \o CollapsedFrom(lines, i + 1)
Collapsed(lines) == CollapsedFrom(lines, 1)

NoEqualNeighbours(lines) == \A i \in 1..(Len(lines) - 1) : lines[i] # lines[i + 1]

\* The last call returned an output
OutputReturned == xfer.pc = "done" /\ xfer.out.kind \in {"text", "iter"}

\* The last call was a single transfer: a leaf call that ran the tool
SingleTransfer ==
    /\ OutputReturned
    /\ ~(last.op = "replicate" /\ last.recursive # "False" /\ last.path \in Dirs)
    /\ Len(last.raw) = 1

\* The tool output of every file involved ends with a line terminator
Terminated(text) == text = <<>> \/ text[Len(text)] = NL

\* C13: the output that replicate and get return, as text and as lines, for a
\* leaf call and for a recursive call, never has two equal lines next to each
\* other; for a transfer it is the tool output with every run of equal
\* neighbouring lines reduced to one line, equal lines further apart all kept.
DuplicateLineSuppression ==
    OutputReturned =>
        /\ NoEqualNeighbours(Contents(OutLines(xfer.out)))
        /\ SingleTransfer =>
              Contents(OutLines(xfer.out)) = Collapsed(Contents(iterlines(xfer.tool[last.path])))

\* The same for a single transfer whose tool output ends with a line terminator
DuplicateLineSuppressionInTransfer ==
    (SingleTransfer /\ Terminated(xfer.tool[last.path])) =>
        /\ NoEqualNeighbours(Contents(OutLines(xfer.out)))
        /\ Contents(OutLines(xfer.out)) = Collapsed(Contents(iterlines(xfer.tool[last.path])))

\* The same for a recursive call when the tool outputs end with a line terminator
DuplicateLineSuppressionInRecursion ==
    (/\ OutputReturned
     /\ last.op = "replicate" /\ last.recursive # "False" /\ last.path \in Dirs
     /\ \A f \in DOMAIN xfer.tool : Terminated(xfer.tool[f])) =>
        NoEqualNeighbours(Contents(OutLines(xfer.out)))

====
